---- MODULE Spec2Model ----
(***************************************************************************)
(* Model of src/sip_growth_streamlit.py: simulate_investment (the          *)
(* projection engine) followed by build_yearly_df (the report builder),    *)
(* as main() runs them when "Calculate Growth" is pressed.                 *)
(*                                                                         *)
(* Money.  The amounts are Python floats.  Here every amount is an integer *)
(* number of 1/Unit currency units (Unit = 8, so 800 is 100.0 and 1 is     *)
(* 0.125).  Such values and their sums are exact in a float, so the sums   *)
(* of the model are the sums of the code.  The product of line 41 is       *)
(* rounded to the nearest 1/Unit, as the float product is rounded to the   *)
(* nearest float.                                                          *)
(***************************************************************************)
EXTENDS Integers, Sequences, FiniteSets, TLC

\* ---------------------------------------------------------------- bounds
MaxYears == 2
MaxInc == 2

\* ------------------------------------------------------ program constants
\* the grid of the float amounts: 1/Unit of a currency unit
Unit == 8
\* months = total_years * 12
MonthsPerYear == 12
\* r = rate / 100 / 12
PercentDen == 100

\* ------------------------------------------------- the form's values tried
\* "Current Age"
StartAges == {25}
\* "Initial Monthly Investment": 0.0, 0.125 and 100.0
MonthlyAmounts == {0, 1, 800}
\* "New Monthly Amount" of an increase: 0.0 and 200.0
IncAmounts == {0, 1600}
\* the rates asked for, in percent a year
RateList == <<0, 12>>

\* compounding_end_age=None; `compounding_end_age or end_age` treats 0 alike
None == 0

SeqsUpTo(S, n) == UNION {[1..k -> S] : k \in 0..n}

VARIABLES
    \* arguments of the calculation, read from the form by main()
    current_age, monthly_investment, end_age, increases, rates,
    compounding_end_age,
    \* control
    pc, rerun,
    \* locals of simulate_investment
    sim_increases, total_years, compounding_years, months, results,
    increase_map, ri, rate, balance, current_contribution, yearly_values,
    invested, m,
    \* locals of build_yearly_df
    df, incs_sorted, invested_amounts, current_amt, total_invested,
    next_inc, y,
    \* history: per rate, what each month of the engine's loop left behind
    log,
    \* history: the results of the previous run of main()
    prev_results

inputs == <<current_age, monthly_investment, end_age, increases, rates,
            compounding_end_age>>
simLocals == <<sim_increases, total_years, compounding_years, months, results,
               increase_map, ri, rate, balance, current_contribution,
               yearly_values, invested, m>>
dfLocals == <<df, incs_sorted, invested_amounts, current_amt, total_invested,
              next_inc, y>>
vars == <<inputs, pc, rerun, simLocals, dfLocals, log, prev_results>>

\* ---------------------------------------------------------------- helpers

\* sorted(increases or [], key=lambda x: x[0]): a stable sort by afterYears
RECURSIVE InsertByYear(_, _)
InsertByYear(s, x) ==
    IF s = <<>> THEN <<x>>
    ELSE IF s[Len(s)][1] <= x[1] THEN Append(s, x)
    ELSE Append(InsertByYear(SubSeq(s, 1, Len(s) - 1), x), s[Len(s)])

RECURSIVE SortedByYear(_)
SortedByYear(s) ==
    IF s = <<>> THEN <<>>
    ELSE InsertByYear(SortedByYear(SubSeq(s, 1, Len(s) - 1)), s[Len(s)])

\* line 18: sorted() builds a new list and the name `increases` is rebound to
\* it; the caller's list is what it was (list.sort() would sort it in place)
ArgumentAfterSorted(s) == s

\* the key of an increase in increase_map: int(y * 12)
IncreaseKey(n) == n * MonthsPerYear

\* {int(y * 12): amt for y, amt in increases}: a later pair overwrites an
\* earlier one with the same key
IncreaseMap(incs) ==
    [k \in {IncreaseKey(incs[i][1]) : i \in DOMAIN incs} |->
        LET last == CHOOSE i \in DOMAIN incs :
                        /\ IncreaseKey(incs[i][1]) = k
                        /\ \A j \in DOMAIN incs :
                               j > i => IncreaseKey(incs[j][1]) # k
        IN incs[last][2]]

\* line 19
TotalYears(cur, end) == end - cur
\* line 20
CompoundingYears(cur, end, cend) == (IF cend # None THEN cend ELSE end) - cur
\* line 21
MonthsAbs(ty) == (IF ty < 0 THEN -ty ELSE ty) * MonthsPerYear
Months(ty) == ty * MonthsPerYear

\* lines 34-35
ActiveContribution(map, mon, cur) ==
    IF mon \in DOMAIN map THEN map[mon] ELSE cur

\* line 40
CompoundsAlways(mon, cy) == TRUE
Compounds(mon, cy) == mon <= cy * MonthsPerYear

\* line 41 with r = rate / 100 / 12: balance * (1 + r), rounded to the grid
GrowWithoutPrincipal(b, rt) ==
    (b * rt + (PercentDen * MonthsPerYear) \div 2) \div (PercentDen * MonthsPerYear)
Shrink(b, rt) ==
    (b * (PercentDen * MonthsPerYear - rt) + (PercentDen * MonthsPerYear) \div 2)
        \div (PercentDen * MonthsPerYear)
Grow(b, rt) ==
    (b * (PercentDen * MonthsPerYear + rt) + (PercentDen * MonthsPerYear) \div 2)
        \div (PercentDen * MonthsPerYear)

\* line 43
RecordsYearOffByOne(mon) == mon % MonthsPerYear = 1
RecordsYear(mon) == mon % MonthsPerYear = 0

\* lines 28 and 31: balance = 0.0, invested = 0.0 at the start of every rate
StartCarried(left) == left
StartAmount(left) == 0

\* line 38
InvestedAssigned(inv, c) == c
InvestedAfter(inv, c) == inv + c

\* int(x) on a float: truncation toward zero
IntTrunc(x) == IF x >= 0 THEN x \div Unit ELSE -((-x) \div Unit)

\* int(round(v, 0)): round half to even
RoundInt(v) ==
    LET q == v \div Unit
        rem == v % Unit
    IN IF 2 * rem < Unit THEN q
       ELSE IF 2 * rem > Unit THEN q + 1
       ELSE IF q % 2 = 0 THEN q ELSE q + 1

\* ------------------------------------------------------------------ Init
NoDf == [Year |-> <<>>, Age |-> <<>>, Return |-> <<>>, TotalInvested |-> <<>>]

Init ==
    /\ current_age \in StartAges
    /\ monthly_investment \in MonthlyAmounts
    /\ end_age \in (current_age - 1)..(current_age + MaxYears)
    /\ compounding_end_age \in {None} \cup (current_age + 1)..(current_age + MaxYears)
    /\ increases \in SeqsUpTo((0..(MaxYears - 1)) \X IncAmounts, MaxInc)
    /\ rates = RateList
    /\ pc = "call"
    /\ rerun = FALSE
    /\ sim_increases = <<>>
    /\ total_years = 0
    /\ compounding_years = 0
    /\ months = 0
    /\ results = <<>>
    /\ increase_map = <<>>
    /\ ri = 1
    /\ rate = 0
    /\ balance = 0
    /\ current_contribution = 0
    /\ yearly_values = <<>>
    /\ invested = 0
    /\ m = 1
    /\ df = NoDf
    /\ incs_sorted = <<>>
    /\ invested_amounts = <<>>
    /\ current_amt = 0
    /\ total_invested = 0
    /\ next_inc = 0
    /\ y = 1
    /\ log = <<>>
    /\ prev_results = <<>>

\* ------------------------------------------------- simulate_investment

\* lines 17-24
SimulateEnter ==
    /\ pc = "call"
    /\ sim_increases' = SortedByYear(increases)
    /\ total_years' = TotalYears(current_age, end_age)
    /\ compounding_years' = CompoundingYears(current_age, end_age, compounding_end_age)
    /\ months' = Months(TotalYears(current_age, end_age))
    /\ results' = <<>>
    /\ increase_map' = IncreaseMap(SortedByYear(increases))
    /\ ri' = 1
    /\ log' = <<>>
    /\ pc' = "rate"
    /\ increases' = ArgumentAfterSorted(increases)
    /\ UNCHANGED <<current_age, monthly_investment, end_age, rates,
                   compounding_end_age, rerun, rate, balance,
                   current_contribution, yearly_values, invested, m, dfLocals,
                   prev_results>>

\* lines 26-31
RateBegin ==
    /\ pc = "rate"
    /\ ri <= Len(rates)
    /\ rate' = rates[ri]
    /\ balance' = StartAmount(balance)
    /\ current_contribution' = monthly_investment
    /\ yearly_values' = <<>>
    /\ invested' = StartAmount(invested)
    /\ m' = 1
    /\ log' = (rates[ri] :> <<>>) @@ log
    /\ pc' = "month"
    /\ UNCHANGED <<inputs, rerun, sim_increases, total_years, compounding_years,
                   months, results, increase_map, ri, dfLocals, prev_results>>

\* lines 33-44: one iteration of the loop over the months
MonthIter ==
    /\ pc = "month"
    /\ m <= months
    /\ LET c == ActiveContribution(increase_map, m, current_contribution)
           paid == balance + c
           b == IF Compounds(m, compounding_years) THEN Grow(paid, rate) ELSE paid
           inv == InvestedAfter(invested, c)
       IN /\ current_contribution' = c
          /\ balance' = b
          /\ invested' = inv
          /\ yearly_values' = IF RecordsYear(m) THEN Append(yearly_values, b)
                              ELSE yearly_values
          /\ log' = [log EXCEPT ![rate] =
                        Append(@, [contribution |-> c, balance |-> b, invested |-> inv])]
    /\ m' = m + 1
    /\ UNCHANGED <<inputs, pc, rerun, sim_increases, total_years, compounding_years,
                   months, results, increase_map, ri, rate, dfLocals, prev_results>>

\* line 46
RateEnd ==
    /\ pc = "month"
    /\ m > months
    /\ results' = (rate :> [yearly_values |-> yearly_values, invested |-> invested])
                      @@ results
    /\ ri' = ri + 1
    /\ pc' = "rate"
    /\ UNCHANGED <<inputs, rerun, sim_increases, total_years, compounding_years,
                   months, increase_map, rate, balance, current_contribution,
                   yearly_values, invested, m, dfLocals, log, prev_results>>

\* line 48, and main() line 128 calling build_yearly_df with what it returned
SimulateReturn ==
    /\ pc = "rate"
    /\ ri > Len(rates)
    /\ pc' = "build"
    /\ UNCHANGED <<inputs, rerun, simLocals, dfLocals, log, prev_results>>

\* ----------------------------------------------------- build_yearly_df

\* lines 52-64 (every rate's column is as long as the Year column, so pandas
\* accepts it)
BuildEnter ==
    /\ pc = "build"
    /\ LET years == [k \in 1..total_years |-> k]
       IN df' = [Year |-> years,
                 Age |-> [k \in 1..total_years |-> current_age + years[k]],
                 Return |-> [rt \in {rates[i] : i \in DOMAIN rates} |->
                               [k \in DOMAIN results[rt].yearly_values |->
                                   RoundInt(results[rt].yearly_values[k])]],
                 TotalInvested |-> <<>>]
    /\ incs_sorted' = SortedByYear(increases)
    /\ increases' = ArgumentAfterSorted(increases)
    /\ invested_amounts' = <<>>
    /\ current_amt' = monthly_investment
    /\ total_invested' = 0
    /\ next_inc' = 0
    /\ y' = 1
    /\ pc' = "year"
    /\ UNCHANGED <<current_age, monthly_investment, end_age, rates,
                   compounding_end_age, rerun, simLocals, log, prev_results>>

\* line 66
IncreaseDue(incs, nxt, yr) == nxt < Len(incs) /\ yr > incs[nxt + 1][1]

\* lines 65-70: one iteration of the loop over the years
YearIter ==
    /\ pc = "year"
    /\ y <= total_years
    /\ LET due == IncreaseDue(incs_sorted, next_inc, y)
           amt == IF due THEN incs_sorted[next_inc + 1][2] ELSE current_amt
           tot == total_invested + amt * MonthsPerYear
       IN /\ current_amt' = amt
          /\ next_inc' = IF due THEN next_inc + 1 ELSE next_inc
          /\ total_invested' = tot
          /\ invested_amounts' = Append(invested_amounts, IntTrunc(tot))
    /\ y' = y + 1
    /\ UNCHANGED <<inputs, pc, rerun, simLocals, df, incs_sorted, log, prev_results>>

\* lines 72-73
BuildReturn ==
    /\ pc = "year"
    /\ y > total_years
    /\ df' = [df EXCEPT !.TotalInvested = invested_amounts]
    /\ pc' = "done"
    /\ UNCHANGED <<inputs, rerun, simLocals, incs_sorted, invested_amounts,
                   current_amt, total_invested, next_inc, y, log, prev_results>>

\* the script runs again with the same form values (lines 122-128)
Rerun ==
    /\ pc = "done"
    /\ ~rerun
    /\ rerun' = TRUE
    /\ prev_results' = results
    /\ pc' = "call"
    /\ UNCHANGED <<inputs, simLocals, dfLocals, log>>

Next ==
    \/ SimulateEnter
    \/ RateBegin
    \/ MonthIter
    \/ RateEnd
    \/ SimulateReturn
    \/ BuildEnter
    \/ YearIter
    \/ BuildReturn

Spec == Init /\ [][Next]_vars

\* one calculation, and the same calculation once more
NextRerun ==
    \/ Next
    \/ Rerun

SpecRerun == Init /\ [][NextRerun]_vars

\* ------------------------------------------------------------- properties

Rates == {rates[i] : i \in DOMAIN rates}
Returned == pc \in {"build", "year", "done"}

\* afterYears ascending, as the form's list is after sorting
Ascending(incs) ==
    \A i, j \in DOMAIN incs : i < j => incs[i][1] <= incs[j][1]

\* valid inputs: endAge > startAge >= 1, increases sorted ascending with
\* 0 <= afterYears < endAge - startAge (amounts are never negative here)
ValidInputs ==
    /\ current_age >= 1
    /\ end_age > current_age
    /\ Ascending(increases)
    /\ \A i \in DOMAIN increases :
           0 <= increases[i][1] /\ increases[i][1] < end_age - current_age

\* the last increase of the sorted list that satisfies Due, or 0 if none does
LastDue(incs, Due(_)) ==
    LET due == {i \in DOMAIN incs : Due(incs[i][1])}
    IN IF due = {} THEN 0 ELSE CHOOSE i \in due : \A j \in due : j <= i

RECURSIVE SumOver(_, _, _)
SumOver(F(_), a, b) == IF a > b THEN 0 ELSE F(b) + SumOver(F, a, b - 1)

\* C1: for valid inputs and every year y, the report's Total Invested of year
\* y is the engine's running invested total after month 12*y (the engine's
\* total is compared after the same truncation to whole units that the
\* report's column undergoes).
C1_ReportMatchesEngine ==
    (pc = "done" /\ ValidInputs) =>
        \A rt \in Rates : \A yr \in 1..total_years :
            df.TotalInvested[yr] = IntTrunc(log[rt][yr * MonthsPerYear].invested)

\* the contribution of month mon if an increase (N, amt) starts at month N*12+1
ClaimedContribution(mon) ==
    LET incs == SortedByYear(increases)
        DueNextMonth(n) == n * MonthsPerYear + 1 <= mon
        i == LastDue(incs, DueNextMonth)
    IN IF i = 0 THEN monthly_investment ELSE incs[i][2]

\* C2: in the engine an increase (N, amt) takes effect at month N*12 + 1: the
\* contribution of month mon is the amount of the last increase with
\* N*12 + 1 <= mon, or the base amount; in the example (25 to 27, 100 a
\* month, then 200 after 1 year) the total is 1200 after month 12 and 3600
\* after month 24.
C2_IncreaseFromNextMonth ==
    ValidInputs =>
        \A rt \in DOMAIN log : \A mon \in DOMAIN log[rt] :
            /\ log[rt][mon].contribution = ClaimedContribution(mon)
            /\ ( /\ current_age = 25 /\ end_age = 27
                 /\ monthly_investment = 100 * Unit
                 /\ increases = << <<1, 200 * Unit>> >> )
               => /\ mon = 12 => log[rt][mon].invested = 1200 * Unit
                  /\ mon = 24 => log[rt][mon].invested = 3600 * Unit

\* C3: for endAge > startAge, every rate's yearly balances have exactly
\* endAge - startAge entries, the k-th being the balance at the end of month
\* 12*k.
C3_YearlyBalances ==
    end_age > current_age =>
        \A rt \in DOMAIN results :
            /\ Len(results[rt].yearly_values) = end_age - current_age
            /\ \A k \in 1..(end_age - current_age) :
                   results[rt].yearly_values[k] = log[rt][k * MonthsPerYear].balance

\* C3 witness: two years simulated at 12%, the second balance above the first
C3_Witness ==
    /\ pc = "done"
    /\ end_age = current_age + 2
    /\ results[12].yearly_values[2] > results[12].yearly_values[1]
    /\ results[12].yearly_values[1] > 0

\* C4: at rate 0 the final year-end balance equals the total contributed,
\* whatever the increases and the compounding end age.
C4_ZeroRate ==
    (0 \in DOMAIN results /\ results[0].yearly_values # <<>>) =>
        results[0].yearly_values[Len(results[0].yearly_values)] = results[0].invested

\* C4 witness: rate 0 over two years with increases and compounding cut after year 1
C4_Witness ==
    /\ pc = "done"
    /\ increases # <<>>
    /\ compounding_end_age # None /\ compounding_end_age < end_age
    /\ Len(results[0].yearly_values) = 2
    /\ results[0].invested > 0
    /\ results[0].yearly_values[2] = results[0].invested

\* C5: with rates and amounts non-negative, every rate's yearly balances are
\* non-decreasing, for every compounding end age and every increases list.
C5_NonDecreasing ==
    \A rt \in DOMAIN results :
        \A k \in 1..(Len(results[rt].yearly_values) - 1) :
            results[rt].yearly_values[k] <= results[rt].yearly_values[k + 1]

\* C5 witness: contributions dropped to 0 after year 1 and the 12% balances still ordered
C5_Witness ==
    /\ pc = "done"
    /\ 12 \in DOMAIN results
    /\ Len(results[12].yearly_values) = 2
    /\ results[12].yearly_values[1] > 0
    /\ current_contribution = 0
    /\ results[12].yearly_values[1] <= results[12].yearly_values[2]

\* the balance month mon started from
BalanceBefore(rt, mon) == IF mon = 1 THEN 0 ELSE log[rt][mon - 1].balance

\* C6: when compoundingEndAge < endAge, the balance is multiplied only in
\* months 1..(compoundingEndAge - startAge)*12; every later month adds the
\* active contribution and nothing else.  On a 2-year horizon with compounding
\* until startAge + 1, the year-2 balance is the year-1 balance plus the
\* twelve contributions of year 2.
C6_CompoundingCutoff ==
    (compounding_end_age # None /\ compounding_end_age < end_age) =>
        /\ \A rt \in DOMAIN log : \A mon \in DOMAIN log[rt] :
               LET paid == BalanceBefore(rt, mon) + log[rt][mon].contribution
               IN IF mon <= (compounding_end_age - current_age) * MonthsPerYear
                  THEN log[rt][mon].balance = Grow(paid, rt)
                  ELSE log[rt][mon].balance = paid
        /\ (end_age = current_age + 2 /\ compounding_end_age = current_age + 1) =>
               \A rt \in DOMAIN results :
                   LET Paid(mon) == log[rt][mon].contribution
                   IN results[rt].yearly_values[2] =
                          results[rt].yearly_values[1] + SumOver(Paid, 13, 24)

\* C6 witness: two years, compounding until the end of year 1, growth seen in year 1 only
C6_Witness ==
    /\ pc = "done"
    /\ end_age = current_age + 2
    /\ compounding_end_age = current_age + 1
    /\ results[12].yearly_values[1] > log[12][12].invested
    /\ results[12].yearly_values[2] > results[12].yearly_values[1]
    /\ Grow(results[12].yearly_values[2], 12) > results[12].yearly_values[2]

\* C7: with endAge <= startAge the engine does not fail: no month is iterated
\* and every requested rate gets an empty yearly sequence and a total of 0.
C7_EmptyOnContradiction ==
    end_age <= current_age =>
        /\ \A rt \in DOMAIN log : log[rt] = <<>>
        /\ \A rt \in DOMAIN results :
               results[rt] = [yearly_values |-> <<>>, invested |-> 0]
        /\ Returned => DOMAIN results = Rates

\* C7 witness: the engine returned for endAge < startAge with every rate empty
C7_Witness ==
    /\ pc = "build"
    /\ end_age < current_age
    /\ increases # <<>>
    /\ monthly_investment > 0
    /\ DOMAIN results = Rates
    /\ \A rt \in Rates : results[rt].yearly_values = <<>> /\ results[rt].invested = 0

\* C8: the engine is a pure function: a second call with the same parameters
\* returns what the first returned, and no call changes the increases list or
\* the rates list it was given.
C8_Pure ==
    /\ [](rerun /\ Returned => results = prev_results)
    /\ [][increases' = increases /\ rates' = rates]_vars

\* C8 witness: a second run over an unsorted increases list returned the same results
C8_Witness ==
    /\ rerun
    /\ pc = "done"
    /\ results = prev_results
    /\ increases # SortedByYear(increases)
    /\ results[12].invested > 0
    /\ results[12].yearly_values # <<>>

\* the monthly amount of year yr if the last increase with afterYears < yr rules
ClaimedYearAmount(yr) ==
    LET incs == SortedByYear(increases)
        DueBefore(n) == n < yr
        i == LastDue(incs, DueBefore)
    IN IF i = 0 THEN monthly_investment ELSE incs[i][2]

ClaimedYearTotal(yr) == ClaimedYearAmount(yr) * MonthsPerYear

\* C9: in the report, for every increases list sorted ascending (ties
\* included), the monthly amount of year y is that of the last increase with
\* afterYears < y, or the base amount, and the cumulative total grows by that
\* amount * 12 every year.
C9_ReportYearAmount ==
    (pc = "year" /\ y > 1 /\ Ascending(increases)) =>
        /\ current_amt = ClaimedYearAmount(y - 1)
        /\ total_invested = SumOver(ClaimedYearTotal, 1, y - 1)

\* what C9 states, for lists in which no two increases share afterYears
C9_WithoutTies ==
    (\A i, j \in DOMAIN increases : i # j => increases[i][1] # increases[j][1]) =>
        C9_ReportYearAmount

\* the total contributed, from the base amount, the increases and the horizon
ExpectedInvested ==
    LET map == IncreaseMap(SortedByYear(increases))
        ContributionInMonth(mon) ==
            LET hit == {k \in DOMAIN map : 1 <= k /\ k <= mon}
            IN IF hit = {} THEN monthly_investment
               ELSE map[CHOOSE k \in hit : \A j \in hit : j <= k]
    IN SumOver(ContributionInMonth, 1, (end_age - current_age) * MonthsPerYear)

\* C10: after every month the balance is at least the invested total, so
\* every year-end balance is at least what was contributed through that year;
\* the total contributed is the same for every rate and is a function of the
\* base amount, the increases and the horizon alone (not of the compounding
\* end age).
C10_BalanceCoversInvested ==
    /\ \A rt \in DOMAIN log : \A mon \in DOMAIN log[rt] :
           log[rt][mon].balance >= log[rt][mon].invested
    /\ \A rt \in DOMAIN results :
           /\ \A k \in DOMAIN results[rt].yearly_values :
                  results[rt].yearly_values[k] >= log[rt][k * MonthsPerYear].invested
           /\ \A other \in DOMAIN results :
                  results[other].invested = results[rt].invested
    /\ pc = "rate" =>
           \A rt \in DOMAIN results : results[rt].invested = ExpectedInvested

\* C10 witness: compounding cut short, an increase applied, both rates with the same total
C10_Witness ==
    /\ pc = "done"
    /\ compounding_end_age # None /\ compounding_end_age < end_age
    /\ results[0].invested = results[12].invested
    /\ results[12].invested > 0
    /\ results[12].yearly_values[1] > log[12][12].invested
    /\ \E mon \in DOMAIN log[12] : log[12][mon].contribution # monthly_investment

====
